---- MODULE Spec2Model ----
(***************************************************************************)
(* rn2md: the RedNotebook -> Markdown line formatters of                   *)
(* rn2md/formatters.py.                                                    *)
(*                                                                         *)
(* A line is a sequence of one-character strings.  Offsets and spans are   *)
(* Python's: 0-based, a span <<lo, hi>> is the half-open interval of       *)
(* re.Match.span().                                                        *)
(***************************************************************************)
EXTENDS Integers, Sequences, FiniteSets, TLC

VARIABLES
    ordered_list_history,    \* format_lists: defaultlist of next ordinals, by column
    sequential_empty_lines,  \* format_lists: length of the current run of blank lines
    sent,                    \* the lines sent to the list formatter so far
    yielded,                 \* the lines it yielded, one per line sent
    cleared_at,              \* the number of lines sent when .clear() last ran (0: never)
    line,                    \* the line a single formatter is given
    out,                     \* the line that formatter yields for it
    formatter,               \* which coroutine produced out ("none": not sent yet)
    padding                  \* header_padding / padding of the coroutine

vars == <<ordered_list_history, sequential_empty_lines, sent, yielded, cleared_at,
          line, out, formatter, padding>>

listVars == <<ordered_list_history, sequential_empty_lines, sent, yielded, cleared_at>>
lineVars == <<line, out, formatter, padding>>

(***************************************************************************)
(* Bounds of the model.                                                    *)
(***************************************************************************)
MaxLines == 5
MaxTokens == 5
MaxLinkTokens == 4
MaxDelimTokens == 5

(***************************************************************************)
(* Python strings.                                                         *)
(***************************************************************************)
Min(a, b) == IF a <= b THEN a ELSE b
Max(a, b) == IF a >= b THEN a ELSE b

\* s[i]
At(s, i) == s[i + 1]

\* s[lo:hi] for 0 <= lo, 0 <= hi
Slice(s, lo, hi) == SubSeq(s, lo + 1, Min(hi, Len(s)))

\* s[lo:]
From(s, lo) == SubSeq(s, lo + 1, Len(s))

\* s.startswith(pat, i)
StartsAt(s, i, pat) ==
    /\ i + Len(pat) <= Len(s)
    /\ SubSeq(s, i + 1, i + Len(pat)) = pat

\* s.count(c)
Count(s, c) == Cardinality({i \in 1..Len(s) : s[i] = c})

\* c * n; a count below 1 gives the empty string
Repeat(c, n) == [i \in 1..Max(n, 0) |-> c]

\* the character U+0060, the backtick, which a TLA+ string cannot hold
Backtick == "BACKTICK"

\* \s of the re module (the characters of it that the model's lines hold)
Whitespace == {" ", "\t"}

Digits == <<"0", "1", "2", "3", "4", "5", "6", "7", "8", "9">>
Letters == {"a", "b", "c", "d", "e", "f", "g", "h", "i", "j", "k", "l", "m",
            "n", "o", "p", "q", "r", "s", "t", "u", "v", "w", "x", "y", "z"}

\* \w of the re module: letters, digits and the underscore itself
WordChars == Letters \cup {Digits[i] : i \in 1..10} \cup {"_"}

\* the length of the run of whitespace s starts with
RECURSIVE LeadingWhitespace(_)
LeadingWhitespace(s) ==
    IF s # <<>> /\ Head(s) \in Whitespace THEN 1 + LeadingWhitespace(Tail(s)) ELSE 0

\* s.lstrip()
LStrip(s) == From(s, LeadingWhitespace(s))

\* s.strip() is empty
IsBlank(s) == \A i \in 1..Len(s) : s[i] \in Whitespace

\* str(n) for n >= 0
RECURSIVE IntToStr(_)
IntToStr(n) ==
    IF n < 10 THEN <<Digits[n + 1]>> ELSE IntToStr(n \div 10) \o <<Digits[(n % 10) + 1]>>

(***************************************************************************)
(* format_lists                                                            *)
(***************************************************************************)
\* re.match(r'^\s*([-|\+])\s', line).start(1), or -1 when the line does not match.
\* Inside the character class the bar is a literal: it is a third marker.
ListMarkers == {"-", "|", "+"}

list_item_match(s) ==
    LET i == LeadingWhitespace(s)
    IN  IF /\ i + 1 < Len(s)
           /\ At(s, i) \in ListMarkers
           /\ At(s, i + 1) \in Whitespace
        THEN i ELSE -1

\* defaultlist(lambda: 1): reading index i first fills the list up to i with 1
Fill(h, i) == h \o [k \in 1..Max(i + 1 - Len(h), 0) |-> 1]

\* del ordered_list_history[i:]
DelFrom(h, i) == SubSeq(h, 1, Min(i, Len(h)))

\* one send() to format_lists: the line yielded and the state it leaves
FormatListsSend(h, e, s) ==
    LET i == list_item_match(s)
    IN  IF i >= 0
        THEN IF At(s, i) = "-"
             THEN [line |-> s,
                   ordered_list_history |-> DelFrom(h, i + 1),
                   sequential_empty_lines |-> e,
                   cleared |-> FALSE]
             ELSE LET filled == Fill(h, i)
                  IN  [line |-> Slice(s, 0, i) \o IntToStr(filled[i + 1]) \o <<".">>
                                  \o From(s, i + 1),
                       ordered_list_history |->
                           DelFrom([filled EXCEPT ![i + 1] = @ + 1], i + 1),
                       sequential_empty_lines |-> e,
                       cleared |-> FALSE]
        ELSE IF ~IsBlank(s)
        THEN [line |-> s,
              ordered_list_history |-> <<>>,
              sequential_empty_lines |-> 0,
              cleared |-> TRUE]
        ELSE [line |-> s,
              ordered_list_history |-> IF e + 1 >= 2 THEN <<>> ELSE h,
              sequential_empty_lines |-> e + 1,
              cleared |-> e + 1 >= 2]

(***************************************************************************)
(* Regular expressions: re.finditer, as sequences of matches.              *)
(***************************************************************************)
SetMin(S) == CHOOSE x \in S : \A y \in S : x <= y

\* re.finditer of a literal pattern: the non-overlapping spans, left to right
RECURSIVE FindLiteral(_, _, _)
FindLiteral(pat, s, pos) ==
    IF pos + Len(pat) > Len(s) THEN <<>>
    ELSE IF StartsAt(s, pos, pat)
         THEN <<(<<pos, pos + Len(pat)>>)>> \o FindLiteral(pat, s, pos + Len(pat))
         ELSE FindLiteral(pat, s, pos + 1)

LinkTextEnd == <<" ", "\"", "\"">>
LinkClose == <<"\"", "\"", "]">>
ImageOpen == <<"[", "\"", "\"">>

\* where the lazy (.*?) of a URL may end: the offsets of ""] at or after lo
UrlEnds(s, lo) == {q \in lo..Len(s) : StartsAt(s, q, LinkClose)}

\* where the lazy ([^\]]*?) of a link opened at st may end and the rest match
LinkTextEnds(s, st) ==
    {p \in (st + 1)..Len(s) :
        /\ \A i \in (st + 1)..(p - 1) : At(s, i) # "]"
        /\ StartsAt(s, p, LinkTextEnd)
        /\ UrlEnds(s, p + 3) # {}}

\* re.finditer(r'\[([^\]]*?) ""(.*?)""\]', s): span(), span(1) and span(2)
RECURSIVE LinkMatches(_, _)
LinkMatches(s, pos) ==
    IF pos >= Len(s) THEN <<>>
    ELSE IF At(s, pos) = "[" /\ LinkTextEnds(s, pos) # {}
         THEN LET p == SetMin(LinkTextEnds(s, pos))
                  q == SetMin(UrlEnds(s, p + 3))
              IN  <<[span |-> <<pos, q + 3>>,
                     text |-> <<pos + 1, p>>,
                     url |-> <<p + 3, q>>]>> \o LinkMatches(s, q + 3)
         ELSE LinkMatches(s, pos + 1)

\* re.finditer(r'\[""(.*?)""\]', s): span() and span(1)
RECURSIVE ImageMatches(_, _)
ImageMatches(s, pos) ==
    IF pos >= Len(s) THEN <<>>
    ELSE IF StartsAt(s, pos, ImageOpen) /\ UrlEnds(s, pos + 3) # {}
         THEN LET q == SetMin(UrlEnds(s, pos + 3))
              IN  <<[span |-> <<pos, q + 3>>, url |-> <<pos + 3, q>>]>>
                      \o ImageMatches(s, q + 3)
         ELSE ImageMatches(s, pos + 1)

\* re.finditer of the pattern of _not_in_backticks (a backtick, a lazy .*?, a
\* backtick): each match runs from a backtick to the next one
RECURSIVE BacktickMatches(_, _)
BacktickMatches(s, pos) ==
    LET opens == {i \in pos..(Len(s) - 1) : At(s, i) = Backtick}
    IN  IF opens = {} THEN <<>>
        ELSE LET st == SetMin(opens)
                 closes == {i \in (st + 1)..(Len(s) - 1) : At(s, i) = Backtick}
             IN  IF closes = {} THEN <<>>
                 ELSE <<(<<st, SetMin(closes) + 1>>)>>
                          \o BacktickMatches(s, SetMin(closes) + 1)

\* the same scan without the lookbehind: r'_(?=\w)'
RECURSIVE UnderscoreBeforeWordMatches(_, _)
UnderscoreBeforeWordMatches(s, pos) ==
    IF pos >= Len(s) THEN <<>>
    ELSE IF /\ At(s, pos) = "_"
            /\ pos + 1 < Len(s) /\ At(s, pos + 1) \in WordChars
         THEN <<(<<pos, pos + 1>>)>> \o UnderscoreBeforeWordMatches(s, pos + 1)
         ELSE UnderscoreBeforeWordMatches(s, pos + 1)

\* re.finditer(r'(?<=\w)_(?=\w)', s)
RECURSIVE InnerUnderscoreMatches(_, _)
InnerUnderscoreMatches(s, pos) ==
    IF pos >= Len(s) THEN <<>>
    ELSE IF /\ At(s, pos) = "_"
            /\ pos >= 1 /\ At(s, pos - 1) \in WordChars
            /\ pos + 1 < Len(s) /\ At(s, pos + 1) \in WordChars
         THEN <<(<<pos, pos + 1>>)>> \o InnerUnderscoreMatches(s, pos + 1)
         ELSE InnerUnderscoreMatches(s, pos + 1)

(***************************************************************************)
(* The span predicates and the balanced-delimiter substitution.            *)
(***************************************************************************)
_spans_intersect(span1, span2) ==
    LET lo1 == Min(span1[1], span1[2])
        hi1 == Max(span1[1], span1[2])
        lo2 == Min(span2[1], span2[2])
        hi2 == Max(span2[1], span2[2])
    IN  hi1 >= lo2 /\ hi2 >= lo1

\* match is a span of string s
_not_in_link(match, s) ==
    LET links == LinkMatches(s, 0)
    IN  ~\E k \in 1..Len(links) : _spans_intersect(match, links[k].url)

_not_in_backticks(match, s) ==
    LET backticks == BacktickMatches(s, 0)
    IN  ~\E k \in 1..Len(backticks) : _spans_intersect(match, backticks[k])

\* preds=None
DefaultPreds == {"_not_in_link", "_not_in_backticks"}

\* the matches of a finditer that pass all of the predicates in preds
_filter_matches(matches, s, preds) ==
    LET Passes(m) ==
            /\ ("_not_in_link" \in preds) => _not_in_link(m, s)
            /\ ("_not_in_backticks" \in preds) => _not_in_backticks(m, s)
    IN  SelectSeq(matches, Passes)

\* start_sub, end_sub = sub: a 2-sequence unpacks, anything else is used twice
StartSub(sub) == IF Len(sub) = 2 THEN <<sub[1]>> ELSE sub
EndSub(sub) == IF Len(sub) = 2 THEN <<sub[2]>> ELSE sub

\* the same loop over balanced_delims unreversed: the pairs j, .., n, the
\* leftmost first, at the offsets found in the string before any substitution
RECURSIVE SubstitutePairsFrom(_, _, _, _, _)
SubstitutePairsFrom(string, delims, sub, j, n) ==
    IF j > n THEN string
    ELSE LET start_delim == delims[2 * j - 1]
             end_delim == delims[2 * j]
             start == Slice(string, 0, start_delim[1])
             data == Slice(string, start_delim[2], end_delim[1])
             end == From(string, end_delim[2])
         IN  SubstitutePairsFrom(start \o StartSub(sub) \o data \o EndSub(sub) \o end,
                                 delims, sub, j + 1, n)

SubstitutePairsForward(string, delims, sub, n) ==
    SubstitutePairsFrom(string, delims, sub, 1, n)

\* the loop of _sub_balanced_delims over reversed(balanced_delims): the pairs
\* n, n-1, .., 1 of delims are substituted in string, the rightmost first
RECURSIVE SubstitutePairs(_, _, _, _)
SubstitutePairs(string, delims, sub, n) ==
    IF n = 0 THEN string
    ELSE LET start_delim == delims[2 * n - 1]
             end_delim == delims[2 * n]
             start == Slice(string, 0, start_delim[1])
             data == Slice(string, start_delim[2], end_delim[1])
             end == From(string, end_delim[2])
         IN  SubstitutePairs(start \o StartSub(sub) \o data \o EndSub(sub) \o end,
                             delims, sub, n - 1)

_sub_balanced_delims(delim_pattern, sub, string, preds) ==
    LET delims == _filter_matches(FindLiteral(delim_pattern, string, 0), string, preds)
    IN  SubstitutePairs(string, delims, sub, Len(delims) \div 2)

(***************************************************************************)
(* The formatters, each as the line a send() yields.                       *)
(***************************************************************************)
\* re.sub(r'\[([^\]]*?) ""(.*?)""\]', r'[\1](\2)', line)
RECURSIVE SubLinks(_, _, _, _)
SubLinks(s, links, k, pos) ==
    IF k > Len(links) THEN From(s, pos)
    ELSE LET m == links[k]
         IN  Slice(s, pos, m.span[1])
                 \o <<"[">> \o Slice(s, m.text[1], m.text[2]) \o <<"]">>
                 \o <<"(">> \o Slice(s, m.url[1], m.url[2]) \o <<")">>
                 \o SubLinks(s, links, k + 1, m.span[2])

format_links(s) == SubLinks(s, LinkMatches(s, 0), 1, 0)

\* re.sub(r'\[""(.*?)""\]', r'![](\1)', line)
RECURSIVE SubImages(_, _, _, _)
SubImages(s, images, k, pos) ==
    IF k > Len(images) THEN From(s, pos)
    ELSE LET m == images[k]
         IN  Slice(s, pos, m.span[1])
                 \o <<"!", "[", "]", "(">> \o Slice(s, m.url[1], m.url[2]) \o <<")">>
                 \o SubImages(s, images, k + 1, m.span[2])

format_images(s) == SubImages(s, ImageMatches(s, 0), 1, 0)

format_italic_text(s) == _sub_balanced_delims(<<"/", "/">>, <<"_">>, s, DefaultPreds)

\* the strikethrough formatter without its guard for lines of dashes
format_strikethrough_text_unguarded(s) ==
    _sub_balanced_delims(<<"-", "-">>, <<"~">>, s, DefaultPreds)

format_strikethrough_text(s) ==
    IF s # Repeat("-", Len(s))
    THEN _sub_balanced_delims(<<"-", "-">>, <<"~">>, s, DefaultPreds)
    ELSE s

format_code_blocks(s) == _sub_balanced_delims(<<Backtick, Backtick>>, <<Backtick>>, s, {"_not_in_link"})

\* the length of the run of "=" that s starts with / ends with
RECURSIVE LeadingEquals(_)
LeadingEquals(s) ==
    IF s # <<>> /\ Head(s) = "=" THEN 1 + LeadingEquals(Tail(s)) ELSE 0

RECURSIVE TrailingEquals(_)
TrailingEquals(s) ==
    IF s # <<>> /\ s[Len(s)] = "="
    THEN 1 + TrailingEquals(SubSeq(s, 1, Len(s) - 1)) ELSE 0

format_headers(pad, s) ==
    LET start_delim == LeadingEquals(s)
        end_delim == TrailingEquals(s)
    IN  IF start_delim = 0 \/ start_delim = Len(s) THEN s
        ELSE IF end_delim = 0 \/ end_delim # start_delim THEN s
        ELSE LET level == start_delim
             IN  Repeat("#", pad + level) \o <<" ">>
                     \o LStrip(Slice(s, level, Len(s) - level))

\* the loop of format_inner_underscores over reversed(inner_underscores)
RECURSIVE EscapeMatches(_, _, _)
EscapeMatches(s, matches, n) ==
    IF n = 0 THEN s
    ELSE EscapeMatches(Slice(s, 0, matches[n][1]) \o <<"\\", "_">>
                           \o From(s, matches[n][2]),
                       matches, n - 1)

format_inner_underscores(s) ==
    LET inner_underscores ==
            _filter_matches(InnerUnderscoreMatches(s, 0), s, DefaultPreds)
    IN  EscapeMatches(s, inner_underscores, Len(inner_underscores))

\* one send() to a fresh format_rednotebook_as_markdown(header_padding): the
\* line goes through ordered_formatters in order
format_rednotebook_as_markdown(header_padding, s) ==
    LET l1 == format_inner_underscores(s)
        l2 == format_links(l1)
        l3 == format_images(l2)
        l4 == format_headers(header_padding, l3)
        l5 == format_code_blocks(l4)
        l6 == format_italic_text(l5)
        l7 == format_strikethrough_text(l6)
    IN  FormatListsSend(<<>>, 0, l7)

(***************************************************************************)
(* Single formatters given one line.  The line is made of at most a        *)
(* bounded number of tokens of a family; each specification draws its      *)
(* lines from one family.                                                  *)
(***************************************************************************)
RECURSIVE Concats(_, _)
Concats(tokens, n) ==
    IF n = 0 THEN {<<>>}
    ELSE LET shorter == Concats(tokens, n - 1)
         IN  shorter \cup {l \o t : l \in shorter, t \in tokens}

\* lines of plain text
PlainTokens == {<<"a">>, <<"_">>, <<"-">>, <<" ">>, <<"|">>}

\* lines of Markdown: escaped underscores, code spans, headers
MarkdownTokens == {<<"a">>, <<"_">>, <<"\\">>, <<Backtick>>, <<"#">>, <<" ">>}

\* [x ""a//a""], [x ""a--a""] and [x ""a_a""], and delimiters around them
LinkTo(url) == <<"[", "x", " ", "\"", "\"">> \o url \o <<"\"", "\"", "]">>
LinkTokens ==
    {LinkTo(<<"a", "/", "/", "a">>), LinkTo(<<"a", "-", "-", "a">>),
     LinkTo(<<"a", "_", "a">>), <<"/", "/">>, <<"-", "-">>, <<" ">>}

\* code delimiters and what they may enclose
CodeTokens == {<<Backtick, Backtick>>, <<"/", "/">>, <<"-", "-">>, <<"a">>, <<"_">>}

\* delimiters, and the two kinds of protected span
DelimTokens == {<<"/", "/">>, <<"-", "-">>, <<Backtick>>, <<"a">>, LinkTo(<<"/", "/">>)}

\* headers
HeaderTokens == {<<"=">>, <<"a">>, <<" ">>, <<"#">>}

InitLine(lines, paddings) ==
    /\ line \in lines
    /\ padding \in paddings
    /\ out = <<>>
    /\ formatter = "none"
    /\ ordered_list_history = <<>>
    /\ sequential_empty_lines = 0
    /\ sent = <<>>
    /\ yielded = <<>>
    /\ cleared_at = 0

Init ==
    InitLine(Concats(PlainTokens, MaxTokens) \cup Concats(MarkdownTokens, MaxTokens), {0})
InitLinks == InitLine(Concats(LinkTokens, MaxLinkTokens), {0})
InitCode == InitLine(Concats(CodeTokens, MaxTokens), {0})
InitDelims == InitLine(Concats(DelimTokens, MaxDelimTokens), {0})
InitHeaders == InitLine(Concats(HeaderTokens, MaxTokens), {-2, -1, 0, 1})

\* a fresh coroutine of a stateless formatter is sent the line
Yield(name, result) ==
    /\ formatter = "none"
    /\ formatter' = name
    /\ out' = result
    /\ UNCHANGED <<line, padding, listVars>>

\* a fresh coroutine that holds a list formatter is sent the line
YieldLists(name, r) ==
    /\ formatter = "none"
    /\ formatter' = name
    /\ out' = r.line
    /\ ordered_list_history' = r.ordered_list_history
    /\ sequential_empty_lines' = r.sequential_empty_lines
    /\ UNCHANGED <<line, padding, sent, yielded, cleared_at>>

SendFormatLinks == Yield("format_links", format_links(line))
SendFormatImages == Yield("format_images", format_images(line))
SendFormatItalicText == Yield("format_italic_text", format_italic_text(line))
SendFormatStrikethroughText ==
    Yield("format_strikethrough_text", format_strikethrough_text(line))
SendFormatCodeBlocks == Yield("format_code_blocks", format_code_blocks(line))
SendFormatHeaders == Yield("format_headers", format_headers(padding, line))
SendFormatInnerUnderscores ==
    Yield("format_inner_underscores", format_inner_underscores(line))
SendFormatLists == YieldLists("format_lists", FormatListsSend(<<>>, 0, line))
SendFormatRednotebookAsMarkdown ==
    YieldLists("format_rednotebook_as_markdown",
               format_rednotebook_as_markdown(padding, line))

Next ==
    \/ SendFormatLinks
    \/ SendFormatImages
    \/ SendFormatItalicText
    \/ SendFormatStrikethroughText
    \/ SendFormatCodeBlocks
    \/ SendFormatHeaders
    \/ SendFormatInnerUnderscores
    \/ SendFormatLists
    \/ SendFormatRednotebookAsMarkdown

Spec == Init /\ [][Next]_vars
SpecLinks == InitLinks /\ [][Next]_vars
SpecCode == InitCode /\ [][Next]_vars
SpecDelims == InitDelims /\ [][Next]_vars
SpecHeaders == InitHeaders /\ [][Next]_vars

(***************************************************************************)
(* The list formatter fed a stream of lines.                               *)
(***************************************************************************)
Indents == {<<>>, <<" ", " ">>}

ListLines ==
    {ind \o <<m, " ", "a">> : ind \in Indents, m \in ListMarkers}
        \cup {<<>>, <<"a">>}

InitLists ==
    /\ ordered_list_history = <<>>
    /\ sequential_empty_lines = 0
    /\ sent = <<>>
    /\ yielded = <<>>
    /\ cleared_at = 0
    /\ line = <<>>
    /\ out = <<>>
    /\ formatter = "none"
    /\ padding = 0

SendLists(s) ==
    LET r == FormatListsSend(ordered_list_history, sequential_empty_lines, s)
    IN  /\ Len(sent) < MaxLines
        /\ ordered_list_history' = r.ordered_list_history
        /\ sequential_empty_lines' = r.sequential_empty_lines
        /\ sent' = Append(sent, s)
        /\ yielded' = Append(yielded, r.line)
        /\ cleared_at' = IF r.cleared THEN Len(sent) + 1 ELSE cleared_at
        /\ UNCHANGED lineVars

NextLists == \E s \in ListLines : SendLists(s)

SpecLists == InitLists /\ [][NextLists]_vars

(***************************************************************************)
(* Reading the list formatter's stream.                                    *)
(***************************************************************************)
Columns == {Len(ind) : ind \in Indents}

\* s is an ordered item as the documentation has it: a "+" at column c
IsPlusItem(s, c) == c >= 0 /\ list_item_match(s) = c /\ At(s, c) = "+"

\* s is a list item as the documentation has it: a "+" or a "-" marker
IsDocListItem(s) == list_item_match(s) >= 0 /\ At(s, list_item_match(s)) \in {"+", "-"}

\* o is s with the marker at column c rewritten to "<n>."
NumberedAs(s, o, c, n) ==
    o = Slice(s, 0, c) \o IntToStr(n) \o <<".">> \o From(s, c + 1)

Ordinals == 1..(MaxLines + 1)

\* C1: a single blank line between two "+" items at one column never resets
\* the numbering: the second item is numbered one more than the first, however
\* many isolated blank lines came earlier in the stream.
C1_SingleBlankKeepsNumbering ==
    \A k \in 1..(Len(sent) - 2) : \A c \in Columns :
        ( /\ IsPlusItem(sent[k], c)
          /\ IsBlank(sent[k + 1])
          /\ IsPlusItem(sent[k + 2], c) )
        => \E n \in Ordinals :
              /\ NumberedAs(sent[k], yielded[k], c, n)
              /\ NumberedAs(sent[k + 2], yielded[k + 2], c, n + 1)

\* C4: the first "+" item at column c since the counters were last cleared is
\* numbered 1, and a later "+" item at column c is numbered one more than the
\* previous "+" item at column c when only list items at columns >= c lie
\* between the two.
C4_PlusItemsNumberedInSequence ==
    Len(sent) >= 1 =>
        LET k == Len(sent)
        IN  \A c \in Columns :
                IsPlusItem(sent[k], c) =>
                    /\ (\A j \in (cleared_at + 1)..(k - 1) : ~IsPlusItem(sent[j], c))
                           => NumberedAs(sent[k], yielded[k], c, 1)
                    /\ \A j \in 1..(k - 1) :
                           ( /\ IsPlusItem(sent[j], c)
                             /\ \A m \in (j + 1)..(k - 1) :
                                    /\ IsDocListItem(sent[m])
                                    /\ list_item_match(sent[m]) >= c
                                    /\ ~IsPlusItem(sent[m], c) )
                           => \E n \in Ordinals :
                                  /\ NumberedAs(sent[j], yielded[j], c, n)
                                  /\ NumberedAs(sent[k], yielded[k], c, n + 1)

\* C5: after a list item ("+" or "-") at column c the counters hold no entry
\* for a column above c, so the next "+" item at a deeper column d is numbered
\* 1, whatever was numbered at column d before.
C5_SubItemCountersReset ==
    Len(sent) >= 1 =>
        LET k == Len(sent)
            d == list_item_match(sent[k])
        IN  /\ (d >= 0 /\ IsDocListItem(sent[k])) => Len(ordered_list_history) <= d + 1
            /\ IsPlusItem(sent[k], d) =>
                   \A j \in 1..(k - 1) :
                       ( /\ IsDocListItem(sent[j])
                         /\ list_item_match(sent[j]) < d
                         /\ \A m \in (j + 1)..(k - 1) : ~IsPlusItem(sent[m], d) )
                       => NumberedAs(sent[k], yielded[k], d, 1)

(***************************************************************************)
(* Reading what a formatter yielded for a line.                            *)
(***************************************************************************)
\* pat in s
Contains(s, pat) == \E i \in 0..(Len(s) - Len(pat)) : StartsAt(s, i, pat)

Pipeline == "format_rednotebook_as_markdown"

DoubleBacktick == <<Backtick, Backtick>>

\* the line has equal runs of "=" at both ends, around something else
HasHeaderRuns(s) ==
    /\ LeadingEquals(s) >= 1
    /\ LeadingEquals(s) < Len(s)
    /\ TrailingEquals(s) = LeadingEquals(s)

\* optional whitespace, then one of the markers and a space
HasLeadingMarker(s, markers) ==
    LET i == LeadingWhitespace(s)
    IN  i + 1 < Len(s) /\ At(s, i) \in markers /\ At(s, i + 1) = " "

\* the line holds no RedNotebook token
NoRedNotebookToken(s) ==
    /\ LinkMatches(s, 0) = <<>>
    /\ ImageMatches(s, 0) = <<>>
    /\ ~Contains(s, <<"/", "/">>)
    /\ ~Contains(s, <<"-", "-">>)
    /\ ~Contains(s, DoubleBacktick)
    /\ ~HasHeaderRuns(s)
    /\ ~HasLeadingMarker(s, {"+"})

\* the line holds no markup token at all
NoMarkupToken(s) ==
    /\ NoRedNotebookToken(s)
    /\ ~HasLeadingMarker(s, {"+", "-"})
    /\ InnerUnderscoreMatches(s, 0) = <<>>

\* C2: through the full pipeline, every link [text ""url""] of the line comes
\* out as [text](url) with the URL as it was in the input: nothing inside it
\* is paired, substituted or escaped.
C2_LinkUrlsUntouched ==
    formatter = Pipeline =>
        LET links == LinkMatches(line, 0)
        IN  \A k \in 1..Len(links) :
                Contains(out, <<"]", "(">>
                                  \o Slice(line, links[k].url[1], links[k].url[2])
                                  \o <<")">>)

\* the text between the n-th pair of literal delim occurrences of s
Interior(s, delim, n) ==
    LET found == FindLiteral(delim, s, 0)
    IN  Slice(s, found[2 * n - 1][2], found[2 * n][1])

\* C3: through the full pipeline, the text between a pair of code delimiters
\* (two backticks) comes out verbatim between single backticks.
C3_CodeSpansVerbatim ==
    formatter = Pipeline =>
        \A n \in 1..(Len(FindLiteral(DoubleBacktick, line, 0)) \div 2) :
            Contains(out, <<Backtick>> \o Interior(line, DoubleBacktick, n)
                              \o <<Backtick>>)

\* s with the first n of the spans in delims replaced by sub, read left to
\* right, and everything else copied
RECURSIVE ReplaceFirst(_, _, _, _, _, _)
ReplaceFirst(s, pos, delims, j, n, sub) ==
    IF j > n THEN From(s, pos)
    ELSE Slice(s, pos, delims[j][1]) \o sub
             \o ReplaceFirst(s, delims[j][2], delims, j + 1, n, sub)

\* the call of _sub_balanced_delims a formatter makes: its delimiter, its
\* substitute and its predicates
DelimCall ==
    [format_italic_text |->
         [delim |-> <<"/", "/">>, sub |-> <<"_">>, preds |-> DefaultPreds],
     format_strikethrough_text |->
         [delim |-> <<"-", "-">>, sub |-> <<"~">>, preds |-> DefaultPreds],
     format_code_blocks |->
         [delim |-> DoubleBacktick, sub |-> <<Backtick>>, preds |-> {"_not_in_link"}]]

\* the delimiter occurrences of the line that pass the formatter's predicates
Surviving(name) ==
    _filter_matches(FindLiteral(DelimCall[name].delim, line, 0), line,
                    DelimCall[name].preds)

CallsSubBalancedDelims ==
    /\ formatter \in DOMAIN DelimCall
    /\ formatter = "format_strikethrough_text" => line # Repeat("-", Len(line))

\* C6: of the k delimiter occurrences that pass the predicates,
\* _sub_balanced_delims rewrites the first 2 * floor(k / 2), in pairs, and
\* nothing else: an odd last one and every other character stay as they were,
\* in order.
C6_BalancedPairsRewritten ==
    CallsSubBalancedDelims =>
        LET delims == Surviving(formatter)
            k == Len(delims)
            call == DelimCall[formatter]
        IN  /\ out = ReplaceFirst(line, 0, delims, 1, 2 * (k \div 2), call.sub)
            /\ Len(out) = Len(line) - 2 * (k \div 2) * (Len(call.delim) - Len(call.sub))

\* three occurrences of // pass and a fourth is protected: one pair is
\* rewritten and the odd one is left
C6_Witness ==
    /\ formatter = "format_italic_text"
    /\ Len(Surviving(formatter)) = 3
    /\ Len(FindLiteral(<<"/", "/">>, line, 0)) = 4
    /\ Count(out, "_") = 2
    /\ Len(FindLiteral(<<"/", "/">>, out, 0)) = 2

\* C7: whenever format_headers transforms a line, the line holds twice as many
\* "=" as the output holds "#" beyond the padding.
C7_HeaderCountInvariant ==
    (formatter = "format_headers" /\ out # line) =>
        Count(line, "=") = 2 * (Count(out, "#") - padding)

\* C8: a line with no markup token comes out of every stage and of the full
\* pipeline unchanged.
C8_NoMarkupIsIdentity ==
    (formatter # "none" /\ NoMarkupToken(line)) => out = line

\* C9: a line with no RedNotebook token is formatted once and for all: a fresh
\* pipeline given the pipeline's output yields that output again.
C9_PipelineIdempotent ==
    (formatter = Pipeline /\ NoRedNotebookToken(line)) =>
        format_rednotebook_as_markdown(padding, out).line = out

\* a Markdown line whose inner underscore the first pass escaped
C9_Witness ==
    /\ formatter = Pipeline
    /\ NoRedNotebookToken(line)
    /\ InnerUnderscoreMatches(line, 0) # <<>>
    /\ Contains(out, <<"\\", "_">>)
    /\ out # line
    /\ format_rednotebook_as_markdown(padding, out).line = out

\* C10: a line of dashes only, of any length from 1, comes out of the
\* strikethrough stage and of the full pipeline unchanged.
C10_DashLinesUnchanged ==
    ( /\ formatter \in {"format_strikethrough_text", Pipeline}
      /\ Len(line) >= 1
      /\ line = Repeat("-", Len(line)) )
    => out = line

\* four dashes, which hold two delimiters, through the strikethrough stage
C10_Witness ==
    /\ formatter = "format_strikethrough_text"
    /\ line = <<"-", "-", "-", "-">>
    /\ out = line

\* C11: a line with equal runs of level "=" at both ends, sent to
\* format_headers with padding + level <= 0, comes out as it went in: no
\* header of zero or fewer "#" is emitted.
C11_NonPositiveLevelIsNoOp ==
    ( /\ formatter = "format_headers"
      /\ HasHeaderRuns(line)
      /\ padding + LeadingEquals(line) <= 0 )
    => out = line

(***************************************************************************)
(* Prose lines in the list formatter's stream.                             *)
(***************************************************************************)
\* s is a prose line as the documentation has it: not blank, and no "+" or
\* "-" marker followed by a space after optional whitespace
IsDocProseLine(s) == ~IsBlank(s) /\ ~HasLeadingMarker(s, {"+", "-"})

\* C12: a prose line is yielded unchanged and leaves no counter, so the next
\* "+" item after it, at whatever column, is numbered 1.
C12_ProseLineClearsCounters ==
    Len(sent) >= 1 =>
        LET k == Len(sent)
        IN  /\ IsDocProseLine(sent[k]) =>
                   /\ yielded[k] = sent[k]
                   /\ ordered_list_history = <<>>
            /\ \A c \in Columns :
                   IsPlusItem(sent[k], c) =>
                       \A j \in 1..(k - 1) :
                           ( /\ IsDocProseLine(sent[j])
                             /\ \A m \in (j + 1)..(k - 1) : \A d \in Columns :
                                    ~IsPlusItem(sent[m], d) )
                           => NumberedAs(sent[k], yielded[k], c, 1)

====
